---------------------------- MODULE Spec2Model ----------------------------
(***************************************************************************)
(* A model of CommitTicketUpdater (arsoft/trac/plugins/commitupdater/      *)
(* commit_updater.py): the repository change listener that parses commit   *)
(* messages for ticket commands and applies them to Trac tickets.          *)
(*                                                                         *)
(* Python strings on which the code does character work (find, rfind,      *)
(* slicing, lower, strip) are sequences of one-character strings.  Ticket  *)
(* field values that the code only compares (status, resolution) are TLA+  *)
(* strings.  A commit message is represented by the sequence of matches    *)
(* that command_re.finditer yields on it, each with its action keyword and *)
(* the ticket ids that ticket_re.findall extracts from its ticket group.   *)
(***************************************************************************)
EXTENDS Integers, Sequences, FiniteSets, TLC

VARIABLES
    tickets,        \* the ticket store: id -> ticket fields, or NoTicket
    changes,        \* per ticket id, the number of committed save_changes
    _last_cset_id,  \* CommitTicketUpdater._last_cset_id
    check_perms,    \* [ticket] commit_ticket_update_check_perms
    notify,         \* [ticket] commit_ticket_update_notify
    allowed_domains,\* [ticket] commit_ticket_update_allowed_domains, split
    event,          \* the notification delivered by the last step
    result,         \* how the last handler call ended
    trace,          \* the collaborator calls and commands of the last call
    delivered,      \* the keys of the changesets delivered so far, in order
    call,           \* a function of the component and the arguments given
    value           \* what that function returned, once it was applied

vars == <<tickets, changes, _last_cset_id, check_perms, notify,
          allowed_domains, event, result, trace, delivered, call, value>>

-----------------------------------------------------------------------------
(* Bounds *)

\* no further notification is delivered once the store holds this many
\* ticket changes
MaxChanges == 2

-----------------------------------------------------------------------------
(* Python values *)

\* Python's None, distinct from every string (no string holds this token)
None == <<"None">>

\* Python truth value of an optional string
Truthy(s) == s # None /\ s # <<>>

Uppers == <<"A","B","C","D","E","F","G","H","I","J","K","L","M",
            "N","O","P","Q","R","S","T","U","V","W","X","Y","Z">>
Lowers == <<"a","b","c","d","e","f","g","h","i","j","k","l","m",
            "n","o","p","q","r","s","t","u","v","w","x","y","z">>

\* the upper-case letters, as a set
UpperSet == {Uppers[i] : i \in 1..Len(Uppers)}

\* the lower-case letter of each upper-case letter
LowerTable ==
    [c \in UpperSet |-> Lowers[CHOOSE i \in 1..Len(Uppers) : Uppers[i] = c]]

LowerChar(c) == IF c \in UpperSet THEN LowerTable[c] ELSE c

\* str.lower()
lower(s) == [i \in 1..Len(s) |-> LowerChar(s[i])]

SetMin(S) == CHOOSE x \in S : \A y \in S : x <= y
SetMax(S) == CHOOSE x \in S : \A y \in S : x >= y

\* s.find(ch, start): lowest 0-based index >= start holding ch, or -1
find(s, ch, start) ==
    LET hits == {i \in start..(Len(s) - 1) : s[i + 1] = ch}
    IN  IF hits = {} THEN -1 ELSE SetMin(hits)

\* s.rfind(ch, start, end): highest 0-based index in [start, end) holding ch
rfind(s, ch, start, end) ==
    LET hits == {i \in start..(end - 1) : i < Len(s) /\ s[i + 1] = ch}
    IN  IF hits = {} THEN -1 ELSE SetMax(hits)

\* s[a:b] for 0 <= a and 0 <= b <= len(s)
slice(s, a, b) == IF a >= b THEN <<>> ELSE SubSeq(s, a + 1, b)

\* the whitespace characters of the strings modelled
Whitespace == {" ", "\t", "\n", "\r"}

\* s.strip()
strip(s) ==
    IF \A i \in 1..Len(s) : s[i] \in Whitespace THEN <<>>
    ELSE SubSeq(s,
                CHOOSE i \in 1..Len(s) :
                    s[i] \notin Whitespace
                        /\ \A j \in 1..(i - 1) : s[j] \in Whitespace,
                CHOOSE i \in 1..Len(s) :
                    s[i] \notin Whitespace
                        /\ \A j \in (i + 1)..Len(s) : s[j] \in Whitespace)

Digits == <<"0","1","2","3","4","5","6","7","8","9">>

\* str(n) for an int n >= 0
RECURSIVE str(_)
str(n) ==
    IF n < 10 THEN <<Digits[n + 1]>>
    ELSE str(n \div 10) \o <<Digits[(n % 10) + 1]>>

\* template % args for a template whose only conversions are %s: the text
\* up to the first %s, the next argument, which is not scanned again, and
\* the rest of the template formatted with the other arguments
RECURSIVE Format(_, _)
Format(template, args) ==
    LET hits == {i \in 1..(Len(template) - 1) :
                    template[i] = "%" /\ template[i + 1] = "s"}
    IN  IF hits = {} THEN template
        ELSE SubSeq(template, 1, SetMin(hits) - 1) \o Head(args)
                 \o Format(SubSeq(template, SetMin(hits) + 2, Len(template)),
                           Tail(args))

\* text.split('\n'): the lines of a text, without their line ends
RECURSIVE SplitLines(_)
SplitLines(text) ==
    LET ends == {i \in 1..Len(text) : text[i] = "\n"}
    IN  IF ends = {} THEN <<text>>
        ELSE <<SubSeq(text, 1, SetMin(ends) - 1)>>
                 \o SplitLines(SubSeq(text, SetMin(ends) + 1, Len(text)))

\* the lines joined again with '\n'
RECURSIVE JoinLines(_)
JoinLines(lines) ==
    IF Len(lines) = 1 THEN lines[1]
    ELSE lines[1] \o <<"\n">> \o JoinLines(Tail(lines))

\* the number of blanks and tabs a line starts with
Indent(line) ==
    IF \A i \in 1..Len(line) : line[i] \in {" ", "\t"} THEN Len(line)
    ELSE SetMin({i \in 1..Len(line) : line[i] \notin {" ", "\t"}}) - 1

\* textwrap.dedent(text) for a text indented with one kind of character:
\* lines of whitespace only become empty, the indentation common to the
\* other lines is removed from them
dedent(text) ==
    LET lines == SplitLines(text)
        blank == {i \in 1..Len(lines) : Indent(lines[i]) = Len(lines[i])}
        others == (1..Len(lines)) \ blank
        margin == IF others = {} THEN 0
                  ELSE SetMin({Indent(lines[i]) : i \in others})
    IN  JoinLines([i \in 1..Len(lines) |->
                      IF i \in blank THEN <<>>
                      ELSE SubSeq(lines[i], margin + 1, Len(lines[i]))])

-----------------------------------------------------------------------------
(* The environment of the test fixture: users, permissions, tickets *)

user1 == <<"u","s","e","r","1">>
user2 == <<"u","s","e","r","2">>
user3 == <<"u","s","e","r","3">>
user4 == <<"u","s","e","r","4">>
example_org == <<"e","x","a","m","p","l","e",".","o","r","g">>
mydomain_net == <<"m","y","d","o","m","a","i","n",".","n","e","t">>
gohome_now == <<"g","o","h","o","m","e",".","n","o","w">>
User_One == <<"U","s","e","r"," ","O","n","e">>
test_person == <<"t","e","s","t","_","p","e","r","s","o","n">>
me == <<"m","e">>

Email(local, domain) == local \o <<"@">> \o domain
Full(name, email) == name \o <<" ", "<">> \o email \o <<">">>

\* env.get_known_users(): (username, name, email) in directory order
known_users ==
    << [username |-> user1, name |-> <<"U","s","e","r"," ","C">>,
        email |-> Email(user1, example_org)],
       [username |-> user2, name |-> <<"U","s","e","r"," ","A">>,
        email |-> Email(user2, example_org)],
       [username |-> user3, name |-> <<"U","s","e","r"," ","D">>,
        email |-> Email(user3, example_org)],
       [username |-> user4, name |-> <<"U","s","e","r"," ","B">>,
        email |-> Email(user4, example_org)] >>

\* the principals granted TICKET_MODIFY
ticket_modify == {user1, user3, user4}

\* every principal holding TICKET_MODIFY
HasTicketModify_any(authname) == TRUE

\* 'TICKET_MODIFY' in perm(ticket.resource), for PermissionCache(env, authname)
HasTicketModify(authname) == authname \in ticket_modify

\* the ticket ids a message may name; ExistingIds are in the store
TicketIds == {1, 2, 3}
ExistingIds == {1, 2}

NoTicket == [status |-> "<absent>"]

Fields(st, res, own, rep) ==
    [status |-> st, resolution |-> res, owner |-> own, reporter |-> rep]

-----------------------------------------------------------------------------
(* Author resolver *)

\* _get_changeset_author: (author_name, author_email, author_email_domain)
_get_changeset_author(changeset_author) ==
    LET at_idx == find(changeset_author, "@", 0)
        lt_idx == rfind(changeset_author, "<", 0, at_idx)
        start_idx == IF lt_idx < 0 THEN 0 ELSE lt_idx + 1
        gt_idx == find(changeset_author, ">", at_idx)
        end_idx == IF gt_idx < 0 THEN Len(changeset_author) ELSE gt_idx
    IN  IF at_idx > 0
        THEN [author_name |->
                  IF lt_idx < 0 THEN None
                  ELSE strip(slice(changeset_author, 0, lt_idx)),
              author_email |-> slice(changeset_author, start_idx, end_idx),
              author_email_domain |->
                  lower(slice(changeset_author, at_idx + 1, end_idx))]
        ELSE [author_name |-> None, author_email |-> None,
              author_email_domain |-> None]

\* _is_author_allowed letting an author without a domain pass
_is_author_allowed_without_domain(changeset_author) ==
    IF allowed_domains = <<>>
    THEN TRUE
    ELSE LET author == _get_changeset_author(changeset_author)
         IN  IF author.author_email_domain # None
             THEN \E i \in 1..Len(allowed_domains) :
                      allowed_domains[i] = author.author_email_domain
             ELSE TRUE

\* _is_author_allowed, given the configured domain list
_is_author_allowed(changeset_author) ==
    IF allowed_domains = <<>>
    THEN TRUE
    ELSE LET author == _get_changeset_author(changeset_author)
         IN  IF author.author_email_domain # None
             THEN \E i \in 1..Len(allowed_domains) :
                      allowed_domains[i] = author.author_email_domain
             ELSE FALSE

\* email.lower() and username.lower() of each user of a directory, None kept
LowerOf(users) ==
    [i \in 1..Len(users) |->
        [email |-> IF users[i].email # None
                   THEN lower(users[i].email) ELSE None,
         username |-> IF users[i].username # None
                      THEN lower(users[i].username) ELSE None]]

\* the same for the directory of the fixture
known_users_lower == LowerOf(known_users)

\* the test of one user of a directory: its email or its username, in lower
\* case, is the address looked for
UserMatches(users, users_lower, i, changeset_email_lower) ==
    \/ (users[i].email # None
          /\ users_lower[i].email = changeset_email_lower)
    \/ (users[i].username # None
          /\ users_lower[i].username = changeset_email_lower)

\* the loop of _get_username_for_email over the directory that
\* env.get_known_users() yields: the first user that matches, else None
UsernameAmong(users, users_lower, changeset_email) ==
    LET changeset_email_lower == lower(changeset_email)
        hits == {i \in 1..Len(users) :
                     UserMatches(users, users_lower, i,
                                 changeset_email_lower)}
    IN  IF hits = {} THEN None ELSE users[SetMin(hits)].username

\* _get_username_for_email, in the environment of the fixture
_get_username_for_email(changeset_email) ==
    UsernameAmong(known_users, known_users_lower, changeset_email)

\* _get_username_for_changeset_author over a given directory
ResolveAmong(users, users_lower, changeset_author) ==
    LET author == _get_changeset_author(changeset_author)
    IN  IF author.author_email # None
        THEN UsernameAmong(users, users_lower, author.author_email)
        ELSE UsernameAmong(users, users_lower, changeset_author)

\* the username resolved, or the author string itself when none is
_get_username_for_changeset_author_or_raw(changeset_author) ==
    LET resolved == ResolveAmong(known_users, known_users_lower,
                                 changeset_author)
    IN  IF Truthy(resolved) THEN resolved ELSE changeset_author

\* _get_username_for_changeset_author, in the environment of the fixture
_get_username_for_changeset_author(changeset_author) ==
    ResolveAmong(known_users, known_users_lower, changeset_author)

\* [trac] ignore_auth_case, false unless configured
ignore_auth_case == FALSE

\* _authname
_authname(changeset) ==
    IF ignore_auth_case THEN lower(changeset.author) ELSE changeset.author

-----------------------------------------------------------------------------
(* Command table *)

\* 'close closed closes fix fixed fixes'
commands_close ==
    << <<"c","l","o","s","e">>,
       <<"c","l","o","s","e","d">>,
       <<"c","l","o","s","e","s">>,
       <<"f","i","x">>,
       <<"f","i","x","e","d">>,
       <<"f","i","x","e","s">> >>

\* 'addresses re references refs see'
commands_refs ==
    << <<"a","d","d","r","e","s","s","e","s">>,
       <<"r","e">>,
       <<"r","e","f","e","r","e","n","c","e","s">>,
       <<"r","e","f","s">>,
       <<"s","e","e">> >>

\* 'reopen reopens reopened'
commands_reopens ==
    << <<"r","e","o","p","e","n">>,
       <<"r","e","o","p","e","n","s">>,
       <<"r","e","o","p","e","n","e","d">> >>

\* 'implement implements implemented impl'
commands_implements ==
    << <<"i","m","p","l","e","m","e","n","t">>,
       <<"i","m","p","l","e","m","e","n","t","s">>,
       <<"i","m","p","l","e","m","e","n","t","e","d">>,
       <<"i","m","p","l">> >>

\* 'reject rejects rejected'
commands_rejects ==
    << <<"r","e","j","e","c","t">>,
       <<"r","e","j","e","c","t","s">>,
       <<"r","e","j","e","c","t","e","d">> >>

\* 'invalid invalidate invalidated invalidates'
commands_invalidate ==
    << <<"i","n","v","a","l","i","d">>,
       <<"i","n","v","a","l","i","d","a","t","e">>,
       <<"i","n","v","a","l","i","d","a","t","e","d">>,
       <<"i","n","v","a","l","i","d","a","t","e","s">> >>

\* 'worksforme'
commands_worksforme ==
    << <<"w","o","r","k","s","f","o","r","m","e">> >>

\* 'alreadyimplemented already_implemented'
commands_alreadyimplemented ==
    << <<"a","l","r","e","a","d","y","i","m","p","l","e","m","e","n","t","e","d">>,
       <<"a","l","r","e","a","d","y","_","i","m","p","l","e","m","e","n","t","e","d">> >>

\* 'testready test_ready ready_for_test rft'
commands_testready ==
    << <<"t","e","s","t","r","e","a","d","y">>,
       <<"t","e","s","t","_","r","e","a","d","y">>,
       <<"r","e","a","d","y","_","f","o","r","_","t","e","s","t">>,
       <<"r","f","t">> >>

ALL == <<"<","A","L","L",">">>

\* the cmd_* attributes in the order dir(self) lists them
CmdOrder ==
    << "alreadyimplemented", "close", "implements", "invalidate", "refs",
       "rejects", "reopens", "testready", "worksforme" >>

\* getattr(self, 'commands_' + name, '').split()
commands(name) ==
    CASE name = "alreadyimplemented" -> commands_alreadyimplemented
      [] name = "close" -> commands_close
      [] name = "implements" -> commands_implements
      [] name = "invalidate" -> commands_invalidate
      [] name = "refs" -> commands_refs
      [] name = "rejects" -> commands_rejects
      [] name = "reopens" -> commands_reopens
      [] name = "testready" -> commands_testready
      [] name = "worksforme" -> commands_worksforme

Range(s) == {s[i] : i \in 1..Len(s)}

\* the commands_* options as the fixture leaves them, by command name
DefaultCommands ==
    [name \in Range(CmdOrder) |-> commands(name)]

\* the loop of _get_functions over given commands_* options: keyword ->
\* command, each keyword registered as the option writes it, a later
\* registration replacing an earlier one of the same keyword
FunctionsOf(options) ==
    LET registered == UNION {Range(options[CmdOrder[i]]) :
                                 i \in 1..Len(CmdOrder)}
    IN  [cmd \in registered |->
            CmdOrder[SetMax({i \in 1..Len(CmdOrder) :
                                 cmd \in Range(options[CmdOrder[i]])})]]

\* _get_functions, under the options of the fixture
_get_functions == FunctionsOf(DefaultCommands)

\* functions.get(cmd.lower()) without the <ALL> fallback
ResolveFunc_no_fallback(functions, refs, cmd) ==
    LET key == lower(cmd)
    IN  IF key \in DOMAIN functions THEN functions[key] ELSE ""

\* functions.get(cmd.lower()), then the <ALL> fallback when commands_refs,
\* given split, is '<ALL>' alone; "" is no function
ResolveFunc(functions, refs, cmd) ==
    LET key == lower(cmd)
        func == IF key \in DOMAIN functions THEN functions[key] ELSE ""
    IN  IF func = "" /\ refs = <<ALL>> THEN "refs" ELSE func

\* a dict of ticket id -> command list, in the model a function on its keys
EmptyDict == [k \in {} |-> <<>>]

\* setdefault followed by an append of a function the list does not hold
SetDefaultAppend_unique(d, tkt_id, func) ==
    [k \in DOMAIN d \cup {tkt_id} |->
        IF k = tkt_id
        THEN IF k \in DOMAIN d
             THEN (IF func \in Range(d[k]) THEN d[k] ELSE d[k] \o <<func>>)
             ELSE <<func>>
        ELSE d[k]]

\* setdefault followed by an insert at the front of the list
SetDefaultAppend_front(d, tkt_id, func) ==
    [k \in DOMAIN d \cup {tkt_id} |->
        IF k = tkt_id
        THEN <<func>> \o (IF k \in DOMAIN d THEN d[k] ELSE <<>>)
        ELSE d[k]]

\* tickets.setdefault(tkt_id, []).append(func)
SetDefaultAppend(d, tkt_id, func) ==
    [k \in DOMAIN d \cup {tkt_id} |->
        IF k = tkt_id
        THEN (IF k \in DOMAIN d THEN d[k] ELSE <<>>) \o <<func>>
        ELSE d[k]]

RECURSIVE AppendAll(_, _, _)
AppendAll(d, tkts, func) ==
    IF tkts = <<>> THEN d
    ELSE AppendAll(SetDefaultAppend(d, Head(tkts), func), Tail(tkts), func)

RECURSIVE ParseMatches(_, _, _, _)
ParseMatches(cmd_groups, functions, refs, d) ==
    IF cmd_groups = <<>> THEN d
    ELSE LET m == Head(cmd_groups)
             func == ResolveFunc(functions, refs, m.action)
         IN  ParseMatches(Tail(cmd_groups), functions, refs,
                          IF func # "" THEN AppendAll(d, m.ticket, func)
                          ELSE d)

\* _parse_message under given commands_* options
ParseUnder(options, message) ==
    ParseMatches(message, FunctionsOf(options), options["refs"], EmptyDict)

\* _parse_message, under the options of the fixture
_parse_message(message) ==
    ParseMatches(message, _get_functions, commands_refs, EmptyDict)

\* the slot of an int key in the 8-slot hash table of a small Python 2 dict
DictSlot(k) == k % 8

\* d.iteritems(): a small dict of int keys is walked in slot order
RECURSIVE iteritems(_)
iteritems(d) ==
    IF DOMAIN d = {} THEN <<>>
    ELSE LET k == CHOOSE x \in DOMAIN d :
                      \A y \in DOMAIN d : DictSlot(x) <= DictSlot(y)
         IN  <<[tkt_id |-> k, cmds |-> d[k]]>>
                 \o iteritems([j \in DOMAIN d \ {k} |-> d[j]])

-----------------------------------------------------------------------------
(* Command-specific behavior: each returns the ticket and its save flag *)

\* cmd_close writing the owner only over no owner
cmd_close_if_unset(ticket, changeset) ==
    LET author_username ==
            _get_username_for_changeset_author(changeset.author)
        closed == [ticket EXCEPT !.status = "closed", !.resolution = "fixed"]
    IN  [ticket |->
            IF ticket.status # "closed"
            THEN IF ~Truthy(closed.owner) /\ Truthy(author_username)
                 THEN [closed EXCEPT !.owner = author_username]
                 ELSE closed
            ELSE ticket,
         save |-> TRUE]

cmd_close(ticket, changeset) ==
    LET author_username ==
            _get_username_for_changeset_author(changeset.author)
        closed == [ticket EXCEPT !.status = "closed", !.resolution = "fixed"]
    IN  [ticket |->
            IF ticket.status # "closed"
            THEN IF Truthy(author_username)
                 THEN [closed EXCEPT !.owner = author_username]
                 ELSE closed
            ELSE ticket,
         save |-> TRUE]

\* CloseAs writing the resolved author over any owner
CloseAs_any_owner(ticket, changeset, resolution) ==
    LET author_username ==
            _get_username_for_changeset_author(changeset.author)
        closed == [ticket EXCEPT !.status = "closed",
                                 !.resolution = resolution]
    IN  [ticket |->
            IF ticket.status # "closed"
            THEN IF Truthy(author_username)
                 THEN [closed EXCEPT !.owner = author_username]
                 ELSE closed
            ELSE ticket,
         save |-> TRUE]

\* the shared shape of cmd_invalidate, cmd_worksforme, cmd_alreadyimplemented
CloseAs(ticket, changeset, resolution) ==
    LET author_username ==
            _get_username_for_changeset_author(changeset.author)
        closed == [ticket EXCEPT !.status = "closed",
                                 !.resolution = resolution]
    IN  [ticket |->
            IF ticket.status # "closed"
            THEN IF ~Truthy(closed.owner) /\ Truthy(author_username)
                 THEN [closed EXCEPT !.owner = author_username]
                 ELSE closed
            ELSE ticket,
         save |-> TRUE]

\* cmd_invalidate without the test of the status
cmd_invalidate_unguarded(ticket, changeset) ==
    [ticket |-> [ticket EXCEPT !.status = "closed",
                               !.resolution = "invalid"],
     save |-> TRUE]

cmd_invalidate(ticket, changeset) == CloseAs(ticket, changeset, "invalid")

\* cmd_worksforme without the test of the status
cmd_worksforme_unguarded(ticket, changeset) ==
    [ticket |-> [ticket EXCEPT !.status = "closed",
                               !.resolution = "worksforme"],
     save |-> TRUE]

cmd_worksforme(ticket, changeset) == CloseAs(ticket, changeset, "worksforme")

\* cmd_alreadyimplemented closing the ticket without writing a resolution
cmd_alreadyimplemented_unresolved(ticket, changeset) ==
    [ticket |-> IF ticket.status # "closed"
                THEN [ticket EXCEPT !.status = "closed"]
                ELSE ticket,
     save |-> TRUE]

cmd_alreadyimplemented(ticket, changeset) ==
    CloseAs(ticket, changeset, "already_implemented")

\* cmd_reopens writing the owner only over no owner
cmd_reopens_if_unset(ticket, changeset) ==
    LET author_username ==
            _get_username_for_changeset_author(changeset.author)
        reopened == [ticket EXCEPT !.status = "reopened", !.resolution = ""]
    IN  [ticket |->
            IF ticket.status = "closed"
            THEN IF ~Truthy(reopened.owner) /\ Truthy(author_username)
                 THEN [reopened EXCEPT !.owner = author_username]
                 ELSE reopened
            ELSE ticket,
         save |-> TRUE]

cmd_reopens(ticket, changeset) ==
    LET author_username ==
            _get_username_for_changeset_author(changeset.author)
        reopened == [ticket EXCEPT !.status = "reopened", !.resolution = ""]
    IN  [ticket |->
            IF ticket.status = "closed"
            THEN IF Truthy(author_username)
                 THEN [reopened EXCEPT !.owner = author_username]
                 ELSE reopened
            ELSE ticket,
         save |-> TRUE]

\* cmd_refs returning False
cmd_refs_no_save(ticket, changeset) == [ticket |-> ticket, save |-> FALSE]

cmd_refs(ticket, changeset) == [ticket |-> ticket, save |-> TRUE]

\* cmd_implements giving the ticket to its reporter, if it has one
cmd_implements_reporter(ticket, changeset) ==
    LET author_username ==
            _get_username_for_changeset_author(changeset.author)
        implemented == [ticket EXCEPT !.status = "implemented"]
    IN  [ticket |->
            IF ticket.status # "implemented" /\ ticket.status # "closed"
            THEN IF Truthy(ticket.reporter)
                 THEN [implemented EXCEPT !.owner = ticket.reporter]
                 ELSE IF Truthy(author_username)
                      THEN [implemented EXCEPT !.owner = author_username]
                      ELSE implemented
            ELSE ticket,
         save |-> TRUE]

cmd_implements(ticket, changeset) ==
    LET author_username ==
            _get_username_for_changeset_author(changeset.author)
        implemented == [ticket EXCEPT !.status = "implemented"]
    IN  [ticket |->
            IF ticket.status # "implemented" /\ ticket.status # "closed"
            THEN IF Truthy(author_username)
                 THEN [implemented EXCEPT !.owner = author_username]
                 ELSE implemented
            ELSE ticket,
         save |-> TRUE]

\* the owner writes shared by cmd_rejects and cmd_testready
ReporterElseAuthor(ticket, changeset) ==
    LET author_username ==
            _get_username_for_changeset_author(changeset.author)
        t1 == IF Truthy(ticket.reporter)
              THEN [ticket EXCEPT !.owner = ticket.reporter] ELSE ticket
    IN  IF ~Truthy(t1.owner) /\ Truthy(author_username)
        THEN [t1 EXCEPT !.owner = author_username]
        ELSE t1

\* cmd_rejects writing the resolved author over the owner of a ticket
\* without reporter
cmd_rejects_author_over(ticket, changeset) ==
    LET author_username ==
            _get_username_for_changeset_author(changeset.author)
        rejected == [ticket EXCEPT !.status = "rejected"]
    IN  [ticket |->
            IF ticket.status # "rejected" /\ ticket.status # "closed"
            THEN IF Truthy(ticket.reporter)
                 THEN [rejected EXCEPT !.owner = ticket.reporter]
                 ELSE IF Truthy(author_username)
                      THEN [rejected EXCEPT !.owner = author_username]
                      ELSE rejected
            ELSE ticket,
         save |-> TRUE]

cmd_rejects(ticket, changeset) ==
    [ticket |->
        IF ticket.status # "rejected" /\ ticket.status # "closed"
        THEN ReporterElseAuthor([ticket EXCEPT !.status = "rejected"],
                                changeset)
        ELSE ticket,
     save |-> TRUE]

\* cmd_testready writing the resolved author over the owner of a ticket
\* without reporter
cmd_testready_author_over(ticket, changeset) ==
    LET author_username ==
            _get_username_for_changeset_author(changeset.author)
        ready == [ticket EXCEPT !.status = "test_ready", !.resolution = ""]
    IN  [ticket |->
            IF ticket.status # "closed"
            THEN IF Truthy(ticket.reporter)
                 THEN [ready EXCEPT !.owner = ticket.reporter]
                 ELSE IF Truthy(author_username)
                      THEN [ready EXCEPT !.owner = author_username]
                      ELSE ready
            ELSE ticket,
         save |-> TRUE]

cmd_testready(ticket, changeset) ==
    [ticket |->
        IF ticket.status # "closed"
        THEN ReporterElseAuthor([ticket EXCEPT !.status = "test_ready",
                                               !.resolution = ""],
                                changeset)
        ELSE ticket,
     save |-> TRUE]

\* cmd(ticket, changeset, ticket_perm) for the bound method named func
Call(func, ticket, changeset) ==
    CASE func = "alreadyimplemented" -> cmd_alreadyimplemented(ticket, changeset)
      [] func = "close" -> cmd_close(ticket, changeset)
      [] func = "implements" -> cmd_implements(ticket, changeset)
      [] func = "invalidate" -> cmd_invalidate(ticket, changeset)
      [] func = "refs" -> cmd_refs(ticket, changeset)
      [] func = "rejects" -> cmd_rejects(ticket, changeset)
      [] func = "reopens" -> cmd_reopens(ticket, changeset)
      [] func = "testready" -> cmd_testready(ticket, changeset)
      [] func = "worksforme" -> cmd_worksforme(ticket, changeset)

-----------------------------------------------------------------------------
(* The per-event update *)

\* the reponame of the repository of the fixture
testrepo == <<"t","e","s","t","r","e","p","o">>

\* the revisions of the changesets
Revs == {7, 42, 43}

\* a repository: its reponame, and str(repos.display_rev(rev)) by revision
Repository(reponame, display_rev) ==
    [reponame |-> reponame, display_rev |-> display_rev]

\* the repository of the fixture: display_rev(rev) is rev
repo == Repository(testrepo, [rev \in Revs |-> str(rev)])

\* the string literal that make_ticket_comment dedents and fills in
comment_template ==
    << "I","n"," ","[","c","h","a","n","g","e","s","e","t",":","\"","%","s",
       "\""," ","%","s","]",":","\n","{","{","{","\n","#","!","C","o","m",
       "m","i","t","T","i","c","k","e","t","R","e","f","e","r","e","n","c",
       "e"," ","r","e","p","o","s","i","t","o","r","y","=","\"","%","s",
       "\""," ","r","e","v","i","s","i","o","n","=","\"","%","s","\"","\n",
       "%","s","\n","}","}","}" >>

\* make_ticket_comment with the message as it is, not stripped
make_ticket_comment_unstripped(repos, changeset) ==
    LET rev == changeset.rev
        suffix == IF Truthy(repos.reponame)
                  THEN <<"/">> \o repos.reponame ELSE <<>>
    IN  Format(dedent(comment_template),
               << str(rev) \o suffix, repos.display_rev[rev] \o suffix,
                  repos.reponame, str(rev), changeset.message >>)

\* make_ticket_comment, for a changeset with the text of its message
make_ticket_comment(repos, changeset) ==
    LET rev == changeset.rev
        revstring == str(rev)
        drev == repos.display_rev[rev]
        suffix == IF Truthy(repos.reponame)
                  THEN <<"/">> \o repos.reponame ELSE <<>>
    IN  Format(dedent(comment_template),
               << revstring \o suffix, drev \o suffix, repos.reponame,
                  str(rev), strip(changeset.message) >>)

\* a text on which command_re.finditer yields the matches given: each
\* action followed by its tickets as '#id', separated by blanks
RECURSIVE TextOf(_)
TextOf(matches) ==
    IF matches = <<>> THEN <<>>
    ELSE LET m == Head(matches)
             RECURSIVE Ids(_)
             Ids(ids) == IF ids = <<>> THEN <<>>
                         ELSE <<" ", "#">> \o str(Head(ids)) \o Ids(Tail(ids))
         IN  m.action \o Ids(m.ticket)
                 \o (IF Len(matches) > 1 THEN <<" ">> ELSE <<>>)
                 \o TextOf(Tail(matches))

\* the changeset with the text of its message in place of the matches
WithText(changeset) ==
    [changeset EXCEPT !.message = TextOf(changeset.message)]

\* one entry of the trace of a handler call
Entry(op, tkt_id, cmd, before, after) ==
    [op |-> op, id |-> tkt_id, cmd |-> cmd, before |-> before, after |-> after]

\* the loop state after a command returned r: save is set if r.save
Applied(acc, cmd, r, tkt_id) ==
    [ticket |-> r.ticket,
     save |-> acc.save \/ r.save,
     trace |-> Append(acc.trace,
                      Entry("cmd", tkt_id, cmd, acc.ticket, r.ticket))]

\* for cmd in cmds: if cmd(ticket, changeset, ticket_perm): save = True
RECURSIVE RunCmds(_, _, _, _)
RunCmds(cmds, acc, changeset, tkt_id) ==
    IF cmds = <<>> THEN acc
    ELSE RunCmds(Tail(cmds),
                 Applied(acc, Head(cmds),
                         Call(Head(cmds), acc.ticket, changeset), tkt_id),
                 changeset, tkt_id)

\* def _notify(self, ticket, date, author, comment): parameters after self
_notify_params == 4

\* self._notify(ticket, date): arguments passed by _update_tickets
_notify_args == 2

\* the body of _notify: a failure of NotificationSystem.notify is caught
_notify(ticket, tkt_id, fail) ==
    IF ~notify THEN <<>>
    ELSE IF fail.op = "notify" /\ fail.id = tkt_id
         THEN <<Entry("notify_failed", tkt_id, "", ticket, ticket)>>
         ELSE <<Entry("notify", tkt_id, "", ticket, ticket)>>

\* the call of _notify: Python raises TypeError when the arguments do not
\* fill the parameters, before the body runs
CallNotify(ticket, tkt_id, fail) ==
    IF _notify_args # _notify_params
    THEN [exc |-> "TypeError", trace |-> <<>>]
    ELSE [exc |-> "", trace |-> _notify(ticket, tkt_id, fail)]

\* ticket.save_changes(authname, comment, date) raises for this ticket
SaveRaises(tkt_id, fail) == fail.op = "save_changes" /\ fail.id = tkt_id

\* the commands running past the permission check alone
MayRun_any_domain(authname, changeset) ==
    ~(check_perms /\ ~HasTicketModify(authname))

\* the commands run only past the permission and the domain check
MayRun(authname, changeset) ==
    /\ ~(check_perms /\ ~HasTicketModify(authname))
    /\ _is_author_allowed(changeset.author)

\* the ticket as looked up, before any command: save = False
Fresh(stored) == [ticket |-> stored, save |-> FALSE, trace |-> <<>>]

\* the inside of the transaction up to "if save": the commands run on the
\* ticket looked up when it exists and the checks pass
RunOrSkip(stored, item, changeset, authname) ==
    IF stored # NoTicket /\ MayRun(authname, changeset)
    THEN RunCmds(item.cmds, Fresh(stored), changeset, item.tkt_id)
    ELSE Fresh(stored)

\* the rest of the loop body, r being the ticket and save flag so far:
\* save_changes inside the transaction, _notify after it, ret[tkt_id]
SaveAndNotify(st, item, r, fail) ==
    LET tkt_id == item.tkt_id
        stored == st.tickets[tkt_id]
        raised == r.save /\ SaveRaises(tkt_id, fail)
        saved == r.save /\ ~raised
        sent == IF saved THEN CallNotify(r.ticket, tkt_id, fail)
                ELSE [exc |-> "", trace |-> <<>>]
        exc == IF raised THEN "save_changes" ELSE sent.exc
    IN  [tickets |-> IF saved THEN [st.tickets EXCEPT ![tkt_id] = r.ticket]
                     ELSE st.tickets,
         changes |-> IF saved
                     THEN [st.changes EXCEPT ![tkt_id] = @ + 1]
                     ELSE st.changes,
         trace |-> st.trace
                     \o <<Entry("Ticket", tkt_id, "", stored, stored)>>
                     \o r.trace
                     \o (IF r.save
                         THEN <<Entry(IF raised THEN "save_failed"
                                      ELSE "save_changes",
                                      tkt_id, "", stored, r.ticket)>>
                         ELSE <<>>)
                     \o sent.trace,
         ret |-> IF exc = ""
                 THEN [k \in DOMAIN st.ret \cup {tkt_id} |->
                          IF k = tkt_id
                          THEN [cmds |-> item.cmds, ticket |-> r.ticket]
                          ELSE st.ret[k]]
                 ELSE st.ret,
         exc |-> exc]

\* one pass of the loop body of _update_tickets, from the state st of the call
ProcessTicket(st, item, changeset, comment, authname, fail) ==
    SaveAndNotify(st, item,
                  RunOrSkip(st.tickets[item.tkt_id], item, changeset,
                            authname),
                  fail)

\* for tkt_id, cmds in tickets.iteritems(): an exception leaves the loop
RECURSIVE UpdateLoop(_, _, _, _, _, _)
UpdateLoop(st, items, changeset, comment, authname, fail) ==
    IF items = <<>> \/ st.exc # "" THEN st
    ELSE UpdateLoop(ProcessTicket(st, Head(items), changeset, comment,
                                  authname, fail),
                    Tail(items), changeset, comment, authname, fail)

\* authname = the resolved username, or _authname(changeset)
AuthnameOr(resolved, changeset) ==
    IF ~Truthy(resolved) THEN _authname(changeset) ELSE resolved

\* _update_tickets, from the store as it is when the call starts
_update_tickets(request, changeset, comment, fail) ==
    UpdateLoop([tickets |-> tickets, changes |-> changes, trace |-> <<>>,
                ret |-> [k \in {} |-> <<>>], exc |-> ""],
               iteritems(request), changeset, comment,
               AuthnameOr(_get_username_for_changeset_author(changeset.author),
                          changeset),
               fail)

\* changeset_added_impl
changeset_added_impl(repos, changeset, fail) ==
    _update_tickets(_parse_message(changeset.message), changeset,
                    make_ticket_comment(repos, WithText(changeset)), fail)

\* the key _is_duplicate compares
CsetId(changeset) ==
    <<changeset.rev, changeset.message, changeset.author, changeset.date>>

\* _is_duplicate comparing with nothing remembered
_is_duplicate_never(changeset) ==
    [dup |-> FALSE, last |-> CsetId(changeset)]

\* _is_duplicate comparing with every key delivered before
_is_duplicate_in_history(changeset) ==
    IF CsetId(changeset) \in Range(delivered)
    THEN [dup |-> TRUE, last |-> _last_cset_id]
    ELSE [dup |-> FALSE, last |-> CsetId(changeset)]

\* _is_duplicate: the answer, and the key remembered afterwards
_is_duplicate(changeset) ==
    IF CsetId(changeset) # _last_cset_id
    THEN [dup |-> FALSE, last |-> CsetId(changeset)]
    ELSE [dup |-> TRUE, last |-> _last_cset_id]

\* dict(each for each in tickets.iteritems() if each[0] not in old_tickets)
NotInOld(request, old_tickets) ==
    [k \in DOMAIN request \ DOMAIN old_tickets |-> request[k]]

\* the outcome of a handler call that ran _update_tickets
Outcome(st) ==
    [kind |-> IF st.exc = "" THEN "returned" ELSE "raised",
     exc |-> st.exc,
     ret |-> IF st.exc = "" THEN st.ret ELSE [k \in {} |-> <<>>]]

Skipped == [kind |-> "duplicate", exc |-> "", ret |-> [k \in {} |-> <<>>]]

-----------------------------------------------------------------------------
(* Inputs *)

Match(action, ids) == [action |-> action, ticket |-> ids]

kw_closes == <<"c","l","o","s","e","s">>
kw_Fixes == <<"F","i","x","e","s">>
kw_refs == <<"r","e","f","s">>
kw_reopen == <<"r","e","o","p","e","n">>
kw_implements == <<"i","m","p","l","e","m","e","n","t","s">>
kw_reject == <<"r","e","j","e","c","t">>
kw_invalid == <<"i","n","v","a","l","i","d">>
kw_worksforme == <<"w","o","r","k","s","f","o","r","m","e">>
kw_alreadyimplemented ==
    <<"a","l","r","e","a","d","y","i","m","p","l","e","m","e","n","t","e","d">>
kw_ready_for_test == <<"r","e","a","d","y","_","f","o","r","_","t","e","s","t">>
kw_stuff == <<"s","t","u","f","f">>

\* "Fixed some stuff. closes #1"
msg_closes == << Match(kw_closes, <<1>>) >>
\* "Fixed some stuff. closes #1, #2"
msg_closes_multiple == << Match(kw_closes, <<1, 2>>) >>
\* "Fixed some stuff. closes #3", a ticket that does not exist
msg_closes_non_existing == << Match(kw_closes, <<3>>) >>
\* "refs #1"
msg_refs == << Match(kw_refs, <<1>>) >>
\* "refs #1 closes #2"
msg_refs_closes == << Match(kw_refs, <<1>>), Match(kw_closes, <<2>>) >>
\* "closes #1 worksforme #1"
msg_closes_worksforme ==
    << Match(kw_closes, <<1>>), Match(kw_worksforme, <<1>>) >>
\* "Fixes #1 and #2, and refs #2"
msg_Fixes_refs == << Match(kw_Fixes, <<1, 2>>), Match(kw_refs, <<2>>) >>
\* "closes #2 and #1"
msg_closes_2_1 == << Match(kw_closes, <<2, 1>>) >>
\* "closes #1, #3", ticket 3 does not exist
msg_closes_1_3 == << Match(kw_closes, <<1, 3>>) >>
\* "Fixed some stuff #1", no command keyword
msg_stuff == << Match(kw_stuff, <<1>>) >>
\* a message without any ticket reference
msg_plain == << >>

\* one command on ticket 1
msg_one(kw) == << Match(kw, <<1>>) >>

Messages ==
    { msg_closes, msg_closes_multiple, msg_closes_non_existing, msg_refs,
      msg_refs_closes, msg_closes_worksforme, msg_stuff, msg_plain,
      msg_closes_2_1, msg_closes_1_3,
      msg_one(kw_reopen), msg_one(kw_invalid), msg_one(kw_worksforme),
      msg_one(kw_alreadyimplemented), msg_one(kw_implements),
      msg_one(kw_reject), msg_one(kw_ready_for_test) }

Changeset(rev, message, author, date) ==
    [rev |-> rev, message |-> message, author |-> author, date |-> date]

\* the authors of the fixture's changesets
author_user1 == Email(user1, example_org)
author_User_One == Full(User_One, Email(user1, example_org))
author_user2 == Email(user2, example_org)
author_user3 == Email(user3, example_org)
author_gohome == Full(test_person, Email(me, gohome_now))
author_mydomain == Full(test_person, Email(me, mydomain_net))

\* every message by user1, and the other authors with a few messages each
Changesets ==
    {Changeset(42, m, author_user1, None) : m \in Messages \ {msg_plain}}
    \cup {Changeset(42, msg_closes, a, None) :
             a \in {author_User_One, author_user2, author_gohome, user3}}
    \cup {Changeset(42, m, author_mydomain, None) :
             m \in {msg_closes, msg_one(kw_reopen), msg_one(kw_implements)}}
    \cup {Changeset(42, msg_one(kw_implements), author_user3, None)}

\* old_changeset is None
NoChangeset == Changeset(-1, <<>>, <<>>, None)

\* the (changeset, old_changeset) pairs of the modifications delivered
Modifications ==
    { <<Changeset(42, msg_refs_closes, author_user1, None),
        Changeset(42, msg_refs, author_user1, None)>>,
      <<Changeset(42, msg_closes_multiple, author_user1, None),
        Changeset(42, msg_plain, author_user1, None)>>,
      <<Changeset(42, msg_Fixes_refs, author_user1, None),
        Changeset(42, msg_refs, author_user1, None)>>,
      <<Changeset(42, msg_closes, author_user1, None), NoChangeset>> }

\* the collaborator call that fails during a handler call, if any
NoFailure == [op |-> "", id |-> 0]
Failures ==
    {NoFailure} \cup {[op |-> "save_changes", id |-> t] : t \in ExistingIds}
                \cup {[op |-> "notify", id |-> t] : t \in ExistingIds}

-----------------------------------------------------------------------------
(* The state machine *)

\* the configurations the component runs under: the fixture's, the same
\* without the permission check, and one without a domain list
Configs ==
    { [check_perms |-> TRUE, notify |-> TRUE,
       allowed_domains |-> <<example_org, mydomain_net>>],
      [check_perms |-> FALSE, notify |-> FALSE,
       allowed_domains |-> <<example_org, mydomain_net>>],
      [check_perms |-> TRUE, notify |-> TRUE, allowed_domains |-> <<>>] }

\* no function is applied on its own
NoCall == [fn |-> "", arg |-> <<>>]
NotReturned == [done |-> FALSE, out |-> <<>>]

\* ticket 1 as the fixture inserts it, without owner and reporter, and with
\* an owner but no reporter; ticket 2 as the fixture inserts it
Init ==
    /\ tickets \in
         { [t \in TicketIds |->
              CASE t = 1 -> Fields("new", "", p[1], p[2])
                [] t = 2 -> Fields("new", "", user2, user2)
                [] OTHER -> NoTicket] :
           p \in {<<user3, user1>>, <<user3, <<>> >>, << <<>>, <<>> >>} }
    /\ changes = [t \in TicketIds |-> 0]
    /\ _last_cset_id = None
    /\ \E cfg \in Configs :
          /\ check_perms = cfg.check_perms
          /\ notify = cfg.notify
          /\ allowed_domains = cfg.allowed_domains
    /\ event = [handler |-> "", changeset |-> NoChangeset,
                old_changeset |-> NoChangeset]
    /\ result = [kind |-> "", exc |-> "", ret |-> [k \in {} |-> <<>>]]
    /\ trace = <<>>
    /\ delivered = <<>>
    /\ call = NoCall
    /\ value = NotReturned

RECURSIVE Sum(_, _)
Sum(f, S) ==
    IF S = {} THEN 0
    ELSE LET x == CHOOSE y \in S : TRUE IN f[x] + Sum(f, S \ {x})

Deliverable == Sum(changes, TicketIds) < MaxChanges

\* a handler call that remembers the key only when the update returned
Ran_key_on_return(st, last) ==
    /\ tickets' = st.tickets
    /\ changes' = st.changes
    /\ trace' = st.trace
    /\ result' = Outcome(st)
    /\ _last_cset_id' = IF st.exc = "" THEN last ELSE _last_cset_id

\* the effect of a handler call that ran the update to the state st
Ran(st, last) ==
    /\ tickets' = st.tickets
    /\ changes' = st.changes
    /\ trace' = st.trace
    /\ result' = Outcome(st)
    /\ _last_cset_id' = last

\* the effect of a handler call that returned on a duplicate
Returned(last) ==
    /\ UNCHANGED <<tickets, changes>>
    /\ trace' = <<>>
    /\ result' = Skipped
    /\ _last_cset_id' = last

\* changeset_added(repos, changeset)
changeset_added(changeset, fail) ==
    /\ event' = [handler |-> "changeset_added", changeset |-> changeset,
                 old_changeset |-> NoChangeset]
    /\ LET d == _is_duplicate(changeset)
       IN  IF d.dup THEN Returned(d.last)
           ELSE Ran(changeset_added_impl(repo, changeset, fail), d.last)
    /\ UNCHANGED <<check_perms, notify, allowed_domains>>

\* tickets = dict(...) of changeset_modified: the new message's tickets that
\* the old message does not name
ModifiedRequest(changeset, old_changeset) ==
    NotInOld(_parse_message(changeset.message),
             IF old_changeset # NoChangeset
             THEN _parse_message(old_changeset.message)
             ELSE EmptyDict)

\* changeset_modified(repos, changeset, old_changeset)
changeset_modified(changeset, old_changeset, fail) ==
    /\ event' = [handler |-> "changeset_modified", changeset |-> changeset,
                 old_changeset |-> old_changeset]
    /\ LET d == _is_duplicate(changeset)
       IN  IF d.dup THEN Returned(d.last)
           ELSE Ran(_update_tickets(ModifiedRequest(changeset, old_changeset),
                                    changeset,
                                    make_ticket_comment(
                                        repo, WithText(changeset)),
                                    fail),
                    d.last)
    /\ UNCHANGED <<check_perms, notify, allowed_domains>>

\* the collaborator failures that can occur while a request is processed:
\* none, or a failing save_changes or notify for one of its tickets
FailuresOn(request) ==
    {f \in Failures : f = NoFailure \/ f.id \in DOMAIN request}

Next ==
    /\ Deliverable
    /\ \/ \E c \in Changesets :
            \E f \in FailuresOn(_parse_message(c.message)) :
               changeset_added(c, f)
       \/ \E m \in Modifications :
            \E f \in FailuresOn(ModifiedRequest(m[1], m[2])) :
               changeset_modified(m[1], m[2], f)
    /\ UNCHANGED <<delivered, call, value>>

Spec == Init /\ [][Next]_vars

-----------------------------------------------------------------------------
(* The handlers under a recorded sequence of deliveries *)

\* the number of deliveries recorded
MaxDeliveries == 3

\* changesets of different keys: different messages, and another revision;
\* 'closes #1 closes #1' and 'reopen #1, #1' queue a command twice
GuardChangesets ==
    { Changeset(42, msg_closes, author_user1, None),
      Changeset(42, msg_refs, author_user1, None),
      Changeset(43, msg_closes_non_existing, author_user1, None),
      Changeset(42, <<Match(kw_closes, <<1>>), Match(kw_closes, <<1>>)>>,
                author_user1, None),
      Changeset(42, <<Match(kw_reopen, <<1, 1>>)>>, author_user1, None) }

\* the key of the changeset delivered is appended to the record
Recorded(changeset) == delivered' = Append(delivered, CsetId(changeset))

NextGuard ==
    /\ Len(delivered) < MaxDeliveries
    /\ \/ \E c \in GuardChangesets :
            changeset_added(c, NoFailure) /\ Recorded(c)
       \/ \E m \in Modifications :
            changeset_modified(m[1], m[2], NoFailure) /\ Recorded(m[1])
    /\ UNCHANGED <<call, value>>

SpecGuard == Init /\ [][NextGuard]_vars

-----------------------------------------------------------------------------
(* The functions of the component applied on their own *)

\* the longest author string built from AuthorChars
MaxAuthorLen == 4

\* the characters _get_changeset_author looks for, a blank, and letters of
\* both cases
AuthorChars == {"a", "B", "@", "<", ">", " "}

\* the strings printed under __main__, without and with a domain
MainAuthors ==
    { Full(test_person, Email(me, gohome_now)),
      Full(test_person, Email(me, <<"m","y","d","o","m","a","i","n">>)),
      test_person,
      Email(test_person, gohome_now) }

\* every string over AuthorChars up to the length bound
AuthorStrings ==
    UNION {[1..n -> AuthorChars] : n \in 0..MaxAuthorLen}

\* the calls of _get_changeset_author
SplitCalls ==
    {[fn |-> "_get_changeset_author", arg |-> a] :
        a \in AuthorStrings \cup MainAuthors}

\* short addresses and names
a_x == <<"a","@","x">>
b_x == <<"b","@","x">>
bob == <<"b","o","b">>

User(username, email) ==
    [username |-> username, name |-> None, email |-> email]

\* directories env.get_known_users() may yield: the fixture's; one whose
\* first user logs in under the address that is the email of the second;
\* one with an email and a username missing and letters of both cases; one
\* where two users share an email
Directories ==
    { known_users,
      << User(a_x, b_x), User(bob, a_x) >>,
      << User(bob, None), User(None, a_x), User(<<"B","o","b">>, b_x) >>,
      << User(user1, <<"A","@","X">>), User(user2, a_x) >> }

\* author strings with and without an email, in both cases, known or not
ResolveAuthors ==
    { a_x, <<"A","@","X">>, b_x, bob, <<"B","O","B">>,
      Full(bob, a_x), Full(a_x, b_x), Email(bob, <<"x">>), <<>>,
      author_user1, author_User_One, user3, author_gohome,
      <<"U","S","E","R","2">> }

\* the calls of _get_username_for_changeset_author
ResolveCalls ==
    {[fn |-> "_get_username_for_changeset_author",
      arg |-> [users |-> d, author |-> a]] :
        d \in Directories, a \in ResolveAuthors}

\* the upper-case letter of each lower-case letter
UpperChar(c) ==
    IF \E i \in 1..Len(Lowers) : Lowers[i] = c
    THEN Uppers[CHOOSE i \in 1..Len(Lowers) : Lowers[i] = c]
    ELSE c

\* a keyword in every mix of upper and lower case
CaseVariants(kw) ==
    {[i \in 1..Len(kw) |-> IF i \in U THEN UpperChar(kw[i])
                            ELSE LowerChar(kw[i])] :
        U \in SUBSET (1..Len(kw))}

kw_Fix == <<"F","i","x">>
kw_see == <<"s","e","e">>

\* commands_* options an administrator may write: the defaults; '<ALL>' for
\* commands_refs; 'Fix closes' for commands_close; both
OptionSets ==
    { DefaultCommands,
      [DefaultCommands EXCEPT !["refs"] = <<ALL>>],
      [DefaultCommands EXCEPT !["close"] = <<kw_Fix, kw_closes>>],
      [DefaultCommands EXCEPT !["refs"] = <<ALL>>,
                              !["close"] = <<kw_Fix, kw_closes>>] }

\* the action keywords of the messages parsed: aliases in every case, a
\* word that is no alias, and the empty action
ParsedKeywords ==
    CaseVariants(kw_Fix) \cup CaseVariants(kw_see) \cup CaseVariants(kw_refs)
        \cup {kw_closes, kw_stuff, <<>>}

\* messages of one command on one or two tickets, and of several commands
ParsedMessages ==
    {<<Match(kw, ids)>> : kw \in ParsedKeywords, ids \in {<<1>>, <<1, 2>>}}
        \cup {msg_Fixes_refs, msg_plain,
              <<Match(kw_stuff, <<1>>), Match(kw_closes, <<1, 2>>)>>,
              <<Match(kw_closes, <<2>>), Match(kw_stuff, <<2, 1>>),
                Match(kw_see, <<2>>)>>}

\* the calls of _parse_message
ParseCalls ==
    {[fn |-> "_parse_message", arg |-> [options |-> o, message |-> m]] :
        o \in OptionSets, m \in ParsedMessages}

\* a commit message with whitespace around and indented lines:
\* '\n  fix a\n   and b \n\n'
text_indented ==
    <<"\n"," "," ","f","i","x"," ","a","\n"," "," "," ","a","n","d"," ","b",
      " ","\n","\n">>

\* texts of commit messages
CommentMessages ==
    { text_indented,
      \* 'closes #1'
      <<"c","l","o","s","e","s"," ","#","1">>,
      \* ' closes #1\n'
      <<" ","c","l","o","s","e","s"," ","#","1","\n">>,
      \* '100%s done %s', conversions of its own
      <<"1","0","0","%","s"," ","d","o","n","e"," ","%","s">>,
      \* '\trefs #2\t'
      <<"\t","r","e","f","s"," ","#","2","\t">>,
      \* two blanks
      <<" "," ">>,
      \* the empty message
      <<>> }

\* repositories: the fixture's, the default repository whose reponame is
\* empty, and one that displays a revision as 'r' and its number
Repositories ==
    { repo,
      Repository(<<>>, [rev \in Revs |-> str(rev)]),
      Repository(<<"g","i","t">>, [rev \in Revs |-> <<"r">> \o str(rev)]) }

\* the calls of make_ticket_comment
CommentCalls ==
    {[fn |-> "make_ticket_comment",
      arg |-> [repos |-> r,
               changeset |-> Changeset(rev, m, author_user1, None)]] :
        r \in Repositories, rev \in Revs, m \in CommentMessages}

\* the component as configured by the fixture, idle, and one call to make
InitPure ==
    /\ tickets = [t \in TicketIds |-> NoTicket]
    /\ changes = [t \in TicketIds |-> 0]
    /\ _last_cset_id = None
    /\ check_perms = TRUE
    /\ notify = TRUE
    /\ allowed_domains = <<example_org, mydomain_net>>
    /\ event = [handler |-> "", changeset |-> NoChangeset,
                old_changeset |-> NoChangeset]
    /\ result = [kind |-> "", exc |-> "", ret |-> [k \in {} |-> <<>>]]
    /\ trace = <<>>
    /\ delivered = <<>>
    /\ value = NotReturned
    /\ \/ call \in SplitCalls
       \/ call \in ResolveCalls
       \/ call \in ParseCalls
       \/ call \in CommentCalls

\* the function applied returns out
Returns(out) ==
    /\ ~value.done
    /\ value' = [done |-> TRUE, out |-> out]
    /\ UNCHANGED <<tickets, changes, _last_cset_id, check_perms, notify,
                   allowed_domains, event, result, trace, delivered, call>>

Apply_get_changeset_author ==
    /\ call.fn = "_get_changeset_author"
    /\ Returns(_get_changeset_author(call.arg))

Apply_get_username_for_changeset_author ==
    /\ call.fn = "_get_username_for_changeset_author"
    /\ Returns(ResolveAmong(call.arg.users, LowerOf(call.arg.users),
                            call.arg.author))

Apply_parse_message ==
    /\ call.fn = "_parse_message"
    /\ Returns(ParseUnder(call.arg.options, call.arg.message))

Apply_make_ticket_comment ==
    /\ call.fn = "make_ticket_comment"
    /\ Returns(make_ticket_comment(call.arg.repos, call.arg.changeset))

NextPure ==
    \/ Apply_get_changeset_author
    \/ Apply_get_username_for_changeset_author
    \/ Apply_parse_message
    \/ Apply_make_ticket_comment

SpecPure == InitPure /\ [][NextPure]_vars

-----------------------------------------------------------------------------
(* Reading the last handler call *)

\* the positions of the trace with the given operation
Ops(op) == {i \in 1..Len(trace) : trace[i].op = op}

\* the ticket ids the last call looked up, saved, and ran commands on
LookedUp == {trace[i].id : i \in Ops("Ticket")}
Saved == {trace[i].id : i \in Ops("save_changes")}
Commanded == {trace[i].id : i \in Ops("cmd")}

\* a handler ran the update in the last step (it was no duplicate)
Processed == result.kind \in {"returned", "raised"}

\* the ticket ids with a recognized command in a message
Named(message) ==
    UNION { Range(message[i].ticket) :
              i \in {j \in 1..Len(message) :
                       lower(message[j].action) \in DOMAIN _get_functions} }

\* the ticket ids the last event asks to update
Requested ==
    IF event.handler = "changeset_modified"
    THEN Named(event.changeset.message)
             \ (IF event.old_changeset = NoChangeset THEN {}
                ELSE Named(event.old_changeset.message))
    ELSE Named(event.changeset.message)

\* the known user each author of the fixture stands for, if any
KnownUserOf(author) ==
    CASE author = author_user1 -> user1
      [] author = author_User_One -> user1
      [] author = author_user2 -> user2
      [] author = author_user3 -> user3
      [] author = user3 -> user3
      [] OTHER -> None

\* the author of the last event, as a known user or None
EventUser == KnownUserOf(event.changeset.author)

\* the author of the last event passes the permission and domain checks
EventAuthorPasses ==
    /\ ~check_perms
         \/ (EventUser # None /\ EventUser \in ticket_modify)
    /\ allowed_domains = <<>>
         \/ event.changeset.author \in
               {author_user1, author_User_One, author_user2, author_user3,
                author_mydomain}

\* no save_changes call of the last event failed
NoSaveFailed == Ops("save_failed") = {}

-----------------------------------------------------------------------------
(* C1 *)

\* C1: a notification whose (rev, message, author, date) equals the key
\* remembered from the previous notification is a no-op: the store is left as
\* it is and no ticket is looked up, changed, saved or notified.
C1_DuplicateIsNoOp ==
    [][ (CsetId(event'.changeset) = _last_cset_id)
            => (UNCHANGED <<tickets, changes>> /\ trace' = <<>>
                  /\ result'.kind = "duplicate") ]_vars

\* a changeset that closed ticket 1 was then delivered again and skipped
C1_Witness ==
    /\ result.kind = "duplicate"
    /\ event.changeset.message = msg_closes
    /\ tickets[1].status = "closed"
    /\ changes[1] = 1

-----------------------------------------------------------------------------
(* C2 *)

\* C2: on changeset_modified the tickets updated are exactly those named by
\* the new message and not by the old one: each of them has its commands
\* applied and is saved, and no other ticket is touched (for an author who
\* passes the checks, tickets that exist, and a store that saves).
C2_ModifiedUpdatesExactlyNew ==
    (/\ event.handler = "changeset_modified"
     /\ Processed
     /\ EventAuthorPasses
     /\ NoSaveFailed
     /\ Requested \subseteq ExistingIds)
        => (Saved = Requested /\ Commanded = Requested)

-----------------------------------------------------------------------------
(* C3 *)

\* C3: whatever the request and the collaborators do, the update call
\* returns an outcome map and raises nothing.
C3_UpdateNeverRaises == result.kind # "raised"

-----------------------------------------------------------------------------
(* C4 *)

\* C4: when save_changes fails for one ticket, every other ticket of the
\* request is still looked up and, the author passing the checks, has its
\* commands applied.
C4_FailureIsIsolated ==
    (Processed /\ ~NoSaveFailed)
        => \A t \in Requested :
              /\ t \in LookedUp
              /\ (t \in ExistingIds /\ EventAuthorPasses) => t \in Commanded

-----------------------------------------------------------------------------
(* C5 *)

\* C5: every existing ticket named with a recognized command by an event
\* whose author passes the permission and domain checks is saved with the
\* comment, whether or not a command changed a field.
C5_CommandedTicketIsSaved ==
    (Processed /\ EventAuthorPasses /\ NoSaveFailed)
        => \A t \in Requested \cap ExistingIds : t \in Saved

-----------------------------------------------------------------------------
(* Reading the commands of the last handler call *)

\* the positions of the trace where the command cmd ran
Ran_cmd(cmd) == {i \in Ops("cmd") : trace[i].cmd = cmd}

\* the owner a command leaves when it writes the resolved author over any
\* owner, and when it writes the resolved author only over no owner
AuthorOver(before) == IF Truthy(EventUser) THEN EventUser ELSE before.owner
AuthorIfUnset(before) ==
    IF ~Truthy(before.owner) /\ Truthy(EventUser) THEN EventUser
    ELSE before.owner

-----------------------------------------------------------------------------
(* C6 *)

\* C6 as claimed: close on a ticket that is not closed yields status closed
\* and resolution fixed, and sets the owner to the resolved author only if
\* the owner was empty.
C6_CloseKeepsSetOwner ==
    \A i \in Ran_cmd("close") :
        trace[i].before.status # "closed"
            => trace[i].after =
                  [trace[i].before EXCEPT !.status = "closed",
                                          !.resolution = "fixed",
                                          !.owner = AuthorIfUnset(trace[i].before)]

\* C6 as amended: close on a ticket that is not closed yields status closed
\* and resolution fixed, and sets the owner to the user the author resolves
\* to whatever the owner was before; the owner is kept only when the author
\* resolves to no known user.
C6_CloseOverwritesOwner ==
    \A i \in Ran_cmd("close") :
        trace[i].before.status # "closed"
            => trace[i].after =
                  [trace[i].before EXCEPT !.status = "closed",
                                          !.resolution = "fixed",
                                          !.owner = AuthorOver(trace[i].before)]

\* close ran on an open ticket owned by user3 and made user1 its owner
C6_Witness ==
    \E i \in Ran_cmd("close") :
        /\ trace[i].before.status = "new"
        /\ trace[i].before.owner = user3
        /\ trace[i].after.owner = user1
        /\ trace[i].after.resolution = "fixed"

-----------------------------------------------------------------------------
(* C7 *)

\* C7: after changeset_added_impl ran close on a ticket that was not closed,
\* for an author who resolves to a known user, the call has returned the
\* ticket with status closed, resolution fixed and that user as owner.
C7_ClosedTicketIsReturned ==
    \A i \in Ran_cmd("close") :
        (/\ event.handler = "changeset_added"
         /\ trace[i].before.status # "closed"
         /\ Truthy(EventUser)
         /\ NoSaveFailed)
            => /\ result.kind = "returned"
               /\ trace[i].id \in DOMAIN result.ret
               /\ result.ret[trace[i].id].ticket.status = "closed"
               /\ result.ret[trace[i].id].ticket.resolution = "fixed"
               /\ result.ret[trace[i].id].ticket.owner = EventUser

-----------------------------------------------------------------------------
(* C8 *)

\* the commands run on ticket 1 by the last call, in order
CmdsOn1 == SelectSeq(trace, LAMBDA e : e.op = "cmd" /\ e.id = 1)

\* the message "closes #1 worksforme #1" was processed and its commands ran
\* on a ticket 1 that was not closed
ClosesWorksformeRan ==
    /\ Processed
    /\ event.changeset.message = msg_closes_worksforme
    /\ Len(CmdsOn1) > 0
    /\ CmdsOn1[1].before.status # "closed"

\* C8 as claimed: both functions run in match order and the ticket ends
\* with the writes of the last one, resolution worksforme.
C8_LastCommandWins ==
    ClosesWorksformeRan
        => /\ Len(CmdsOn1) = 2
           /\ CmdsOn1[1].cmd = "close" /\ CmdsOn1[2].cmd = "worksforme"
           /\ CmdsOn1[2].after.resolution = "worksforme"

\* C8 as amended: both functions run in match order on the same ticket; the
\* first closes it with resolution fixed, the second finds it closed and
\* writes no field, so the ticket ends with the writes of the first one.
C8_FirstCommandWins ==
    ClosesWorksformeRan
        => /\ Len(CmdsOn1) = 2
           /\ CmdsOn1[1].cmd = "close" /\ CmdsOn1[2].cmd = "worksforme"
           /\ CmdsOn1[2].before = CmdsOn1[1].after
           /\ CmdsOn1[2].after = CmdsOn1[1].after
           /\ CmdsOn1[2].after.status = "closed"
           /\ CmdsOn1[2].after.resolution = "fixed"

\* both commands ran on an open ticket 1 and the ticket was saved as fixed
C8_Witness ==
    /\ ClosesWorksformeRan
    /\ Len(CmdsOn1) = 2
    /\ 1 \in Saved
    /\ tickets[1].resolution = "fixed"

-----------------------------------------------------------------------------
(* C9 *)

\* C9 as claimed: reopen on a closed ticket yields status reopened, no
\* resolution, and the commit author as owner in every case (the user the
\* author resolves to, else the author as given); on a ticket that is not
\* closed it changes nothing.
C9_ReopenAlwaysSetsOwner ==
    \A i \in Ran_cmd("reopens") :
        trace[i].after =
            IF trace[i].before.status = "closed"
            THEN [trace[i].before EXCEPT
                     !.status = "reopened", !.resolution = "",
                     !.owner = IF Truthy(EventUser) THEN EventUser
                               ELSE event.changeset.author]
            ELSE trace[i].before

\* C9 as amended: reopen on a closed ticket yields status reopened, no
\* resolution, and the user the author resolves to as owner; when the author
\* resolves to no known user the owner is left as it was.  On a ticket that
\* is not closed it changes nothing.
C9_ReopenSetsResolvedOwner ==
    \A i \in Ran_cmd("reopens") :
        trace[i].after =
            IF trace[i].before.status = "closed"
            THEN [trace[i].before EXCEPT
                     !.status = "reopened", !.resolution = "",
                     !.owner = AuthorOver(trace[i].before)]
            ELSE trace[i].before

\* reopen ran on a closed ticket owned by someone else than the author
C9_Witness ==
    \E i \in Ran_cmd("reopens") :
        /\ trace[i].before.status = "closed"
        /\ Truthy(trace[i].before.owner)
        /\ trace[i].before.owner # trace[i].after.owner
        /\ trace[i].after.status = "reopened"
        /\ trace[i].after.resolution = ""

-----------------------------------------------------------------------------
(* C10 *)

\* the resolution each closing command other than close writes
ResolutionOf(cmd) ==
    CASE cmd = "invalidate" -> "invalid"
      [] cmd = "worksforme" -> "worksforme"
      [] cmd = "alreadyimplemented" -> "already_implemented"

\* C10: invalidate, worksforme and already_implemented on a ticket that is
\* not closed yield status closed with their resolution and set the owner to
\* the resolved author only if the owner was unset; on a closed ticket they
\* change nothing.
C10_CloseAsKeepsSetOwner ==
    \A i \in Ops("cmd") :
        trace[i].cmd \in {"invalidate", "worksforme", "alreadyimplemented"}
            => trace[i].after =
                  IF trace[i].before.status # "closed"
                  THEN [trace[i].before EXCEPT
                           !.status = "closed",
                           !.resolution = ResolutionOf(trace[i].cmd),
                           !.owner = AuthorIfUnset(trace[i].before)]
                  ELSE trace[i].before

\* already_implemented closed an open ticket and kept its owner, after
\* which invalidate found the ticket closed
C10_Witness ==
    /\ \E i \in Ran_cmd("invalidate") :
          /\ trace[i].before.status = "closed"
          /\ trace[i].before.resolution = "already_implemented"
          /\ trace[i].before.owner = user3
    /\ changes[1] = 2

-----------------------------------------------------------------------------
(* C11 *)

\* the owner the transition table gives implement, reject and test_ready:
\* the reporter if it is set, otherwise the resolved author
ReporterElseAuthorOver(before) ==
    IF Truthy(before.reporter) THEN before.reporter ELSE AuthorOver(before)

\* C11 as claimed: implement on a ticket that is neither implemented nor
\* closed yields status implemented and the reporter, if set, as owner,
\* otherwise the author; on an implemented or closed ticket it changes
\* nothing.
C11_ImplementSetsReporter ==
    \A i \in Ran_cmd("implements") :
        trace[i].after =
            IF trace[i].before.status \notin {"implemented", "closed"}
            THEN [trace[i].before EXCEPT
                     !.status = "implemented",
                     !.owner = ReporterElseAuthorOver(trace[i].before)]
            ELSE trace[i].before

\* C11 as amended: implement on a ticket that is neither implemented nor
\* closed yields status implemented and the user the author resolves to as
\* owner, whatever the reporter and the previous owner are; the owner is
\* kept when the author resolves to no known user.  On an implemented or
\* closed ticket it changes nothing.
C11_ImplementSetsAuthor ==
    \A i \in Ran_cmd("implements") :
        trace[i].after =
            IF trace[i].before.status \notin {"implemented", "closed"}
            THEN [trace[i].before EXCEPT
                     !.status = "implemented",
                     !.owner = AuthorOver(trace[i].before)]
            ELSE trace[i].before

\* implement by user3 ran on an open ticket reported by user1
C11_Witness ==
    \E i \in Ran_cmd("implements") :
        /\ trace[i].before.status = "new"
        /\ trace[i].before.reporter = user1
        /\ EventUser = user3
        /\ trace[i].after.status = "implemented"
        /\ trace[i].after.owner = user3

-----------------------------------------------------------------------------
(* C12 *)

\* the owner reject and test_ready leave: the reporter if it is set,
\* otherwise the owner the ticket had, otherwise the resolved author
ReporterElseOwnerElseAuthor(before) ==
    IF Truthy(before.reporter) THEN before.reporter
    ELSE AuthorIfUnset(before)

\* C12 as claimed: reject on a ticket that is neither rejected nor closed
\* yields status rejected and the reporter, if set, as owner, otherwise the
\* author, also over an owner the ticket had; on a rejected or closed ticket
\* it changes nothing.
C12_RejectSetsReporterElseAuthor ==
    \A i \in Ran_cmd("rejects") :
        trace[i].after =
            IF trace[i].before.status \notin {"rejected", "closed"}
            THEN [trace[i].before EXCEPT
                     !.status = "rejected",
                     !.owner = ReporterElseAuthorOver(trace[i].before)]
            ELSE trace[i].before

\* C12 as amended: reject on a ticket that is neither rejected nor closed
\* yields status rejected; the owner becomes the reporter if the reporter is
\* set; without a reporter an owner the ticket had is kept, and only a
\* ticket without reporter and owner gets the resolved author as owner.  On
\* a rejected or closed ticket it changes nothing.
C12_RejectKeepsOwnerWithoutReporter ==
    \A i \in Ran_cmd("rejects") :
        trace[i].after =
            IF trace[i].before.status \notin {"rejected", "closed"}
            THEN [trace[i].before EXCEPT
                     !.status = "rejected",
                     !.owner = ReporterElseOwnerElseAuthor(trace[i].before)]
            ELSE trace[i].before

\* reject by user1 ran on an open ticket without reporter owned by user3
C12_Witness ==
    \E i \in Ran_cmd("rejects") :
        /\ trace[i].before.status = "new"
        /\ ~Truthy(trace[i].before.reporter)
        /\ trace[i].before.owner = user3
        /\ EventUser = user1
        /\ trace[i].after.status = "rejected"
        /\ trace[i].after.owner = user3

-----------------------------------------------------------------------------
(* C13 *)

\* C13 as claimed: test_ready on a ticket that is not closed yields status
\* test_ready, no resolution, and the reporter, if set, as owner, otherwise
\* the author, also over an owner the ticket had; on a closed ticket it
\* changes nothing.
C13_TestreadySetsReporterElseAuthor ==
    \A i \in Ran_cmd("testready") :
        trace[i].after =
            IF trace[i].before.status # "closed"
            THEN [trace[i].before EXCEPT
                     !.status = "test_ready",
                     !.resolution = "",
                     !.owner = ReporterElseAuthorOver(trace[i].before)]
            ELSE trace[i].before

\* C13 as amended: test_ready on a ticket that is not closed yields status
\* test_ready and no resolution; the owner becomes the reporter if the
\* reporter is set; without a reporter an owner the ticket had is kept, and
\* only a ticket without reporter and owner gets the resolved author as
\* owner.  On a closed ticket it changes nothing.
C13_TestreadyKeepsOwnerWithoutReporter ==
    \A i \in Ran_cmd("testready") :
        trace[i].after =
            IF trace[i].before.status # "closed"
            THEN [trace[i].before EXCEPT
                     !.status = "test_ready",
                     !.resolution = "",
                     !.owner = ReporterElseOwnerElseAuthor(trace[i].before)]
            ELSE trace[i].before

\* test_ready by user1 ran on an open ticket without reporter owned by user3
C13_Witness ==
    \E i \in Ran_cmd("testready") :
        /\ trace[i].before.status \notin {"closed", "test_ready"}
        /\ ~Truthy(trace[i].before.reporter)
        /\ trace[i].before.owner = user3
        /\ EventUser = user1
        /\ trace[i].after.status = "test_ready"
        /\ trace[i].after.resolution = ""
        /\ trace[i].after.owner = user3

-----------------------------------------------------------------------------
(* Reading the checks of the last handler call *)

\* the ticket ids for which the last call called save_changes
SaveCalled == Saved \cup {trace[i].id : i \in Ops("save_failed")}

\* every ticket the last call looked up is stored as it was looked up
LookedUpUntouched ==
    \A i \in Ops("Ticket") : tickets[trace[i].id] = trace[i].before

\* the domain of each author's mail address, None where there is none
ExtractableDomain(author) ==
    CASE author \in {author_user1, author_User_One, author_user2,
                     author_user3} -> example_org
      [] author = author_gohome -> gohome_now
      [] author = author_mydomain -> mydomain_net
      [] OTHER -> None

\* the domain policy, as the contract words it
DomainPolicyAllows(author) ==
    \/ allowed_domains = <<>>
    \/ /\ ExtractableDomain(author) # None
       /\ ExtractableDomain(author) \in Range(allowed_domains)

\* the author strings of the changesets delivered
Authors == {c.author : c \in Changesets}

-----------------------------------------------------------------------------
(* C14 *)

\* C14: reference leaves status, resolution, owner and reporter of a ticket
\* in any state as they are, and save_changes is still called for the
\* ticket, so that the commit message is added as a comment.
C14_RefsChangesNoField ==
    \A i \in Ran_cmd("refs") :
        /\ trace[i].after = trace[i].before
        /\ trace[i].id \in SaveCalled

\* reference alone ran on a closed ticket, which was saved as it was
C14_Witness ==
    /\ event.changeset.message = msg_refs
    /\ \E i \in Ran_cmd("refs") :
          /\ trace[i].before.status = "closed"
          /\ trace[i].id \in Saved
          /\ tickets[trace[i].id] = trace[i].before
          /\ changes[trace[i].id] = 2

-----------------------------------------------------------------------------
(* C15 *)

\* C15: when a message names ticket 3, which is not in the store, the call
\* returns an outcome map in which ticket 3 is absent, save_changes is not
\* called for it, and every other ticket of the request is looked up.
C15_AbsentTicketIsSkipped ==
    (Processed /\ NoSaveFailed /\ 3 \in Requested)
        => /\ result.kind = "returned"
           /\ 3 \in DOMAIN result.ret
           /\ result.ret[3].ticket = NoTicket
           /\ 3 \notin SaveCalled
           /\ Requested \subseteq LookedUp

-----------------------------------------------------------------------------
(* C16 *)

\* the author of the last event holds TICKET_MODIFY
EventUserMayModify == EventUser # None /\ EventUser \in ticket_modify

\* C16: with check_perms on and an author without TICKET_MODIFY no command
\* runs, save_changes is not called and the tickets looked up stay as they
\* were; with check_perms off the commands run on every existing ticket
\* looked up, provided the domain policy allows the author.
C16_NoModifyNoCommand ==
    Processed
        => /\ (check_perms /\ ~EventUserMayModify)
                => (Commanded = {} /\ SaveCalled = {} /\ LookedUpUntouched)
           /\ (~check_perms /\ DomainPolicyAllows(event.changeset.author))
                => \A i \in Ops("Ticket") :
                      trace[i].before # NoTicket => trace[i].id \in Commanded

\* close #1 by user2, who holds TICKET_VIEW only, with check_perms on:
\* ticket 1 was looked up and nothing ran
C16_Witness ==
    /\ check_perms
    /\ event.changeset.author = author_user2
    /\ DomainPolicyAllows(event.changeset.author)
    /\ result.kind = "returned"
    /\ LookedUp = {1}
    /\ Commanded = {}
    /\ tickets[1].status = "new"

-----------------------------------------------------------------------------
(* C17 *)

\* C17: when the domain policy does not allow the author, no command runs
\* for any ticket of the event, save_changes is not called, and every ticket
\* looked up keeps its fields.
C17_DeniedDomainNoCommand ==
    (Processed /\ ~DomainPolicyAllows(event.changeset.author))
        => (Commanded = {} /\ SaveCalled = {} /\ LookedUpUntouched)

\* close #1 by test_person <me@gohome.now> with check_perms off: ticket 1
\* was looked up and nothing ran
C17_Witness ==
    /\ ~check_perms
    /\ event.changeset.author = author_gohome
    /\ result.kind = "returned"
    /\ LookedUp = {1}
    /\ Commanded = {}
    /\ tickets[1].status = "new"

-----------------------------------------------------------------------------
(* C18 *)

\* C18: _is_author_allowed is true for every author when no domain is
\* configured; otherwise it is true exactly for the authors whose address
\* has a domain that is in the configured list, an author without a domain
\* being denied.
C18_IsAuthorAllowed ==
    \A a \in Authors : _is_author_allowed(a) = DomainPolicyAllows(a)

\* close #1 by "user3", an author without a domain who holds TICKET_MODIFY,
\* with a domain list configured: ticket 1 was looked up and nothing ran
C18_Witness ==
    /\ allowed_domains # <<>>
    /\ event.changeset.author = user3
    /\ ExtractableDomain(event.changeset.author) = None
    /\ ~_is_author_allowed(event.changeset.author)
    /\ result.kind = "returned"
    /\ LookedUp = {1}
    /\ Commanded = {}

-----------------------------------------------------------------------------
(* C19 *)

\* the commands run on ticket 2 by the last call, in order
CmdsOn2 == SelectSeq(trace, LAMBDA e : e.op = "cmd" /\ e.id = 2)

\* C19: "Fixes #1 and #2, and refs #2" parses to {1: [close], 2: [close,
\* refs]}: each ticket gets the functions of all commands that name it, in
\* the order of the commands, and the update runs them in that order.
C19_ParseAccumulatesInOrder ==
    event.changeset.message = msg_Fixes_refs
        => /\ DOMAIN _parse_message(event.changeset.message) = {1, 2}
           /\ _parse_message(event.changeset.message)[1] = <<"close">>
           /\ _parse_message(event.changeset.message)[2] = <<"close", "refs">>
           /\ 2 \in Commanded
                => (/\ Len(CmdsOn2) = 2
                    /\ CmdsOn2[1].cmd = "close"
                    /\ CmdsOn2[2].cmd = "refs"
                    /\ CmdsOn2[2].before = CmdsOn2[1].after)

\* the message replaced "refs #1": close, then refs, ran on ticket 2
C19_Witness ==
    /\ event.changeset.message = msg_Fixes_refs
    /\ event.handler = "changeset_modified"
    /\ Len(CmdsOn2) = 2
    /\ CmdsOn2[1].before.status = "new"
    /\ CmdsOn2[2].after.status = "closed"
    /\ 2 \in Saved

-----------------------------------------------------------------------------
(* C20 *)

\* C20: the request of "closes #2 and #1" lists ticket 2 before ticket 1,
\* the order of their first mention, and the update looks tickets up in
\* that order.
C20_InsertionOrder ==
    event.changeset.message = msg_closes_2_1
        => /\ iteritems(_parse_message(event.changeset.message))[1].tkt_id = 2
           /\ LookedUp # {} => trace[1].id = 2

-----------------------------------------------------------------------------
(* C29 *)

\* C29: a command other than reopen that runs on a ticket whose status is
\* closed leaves the ticket's status, resolution and owner as they were, so
\* any sequence of such commands does.
C29_ClosedIsAbsorbing ==
    \A i \in Ops("cmd") :
        trace[i].cmd # "reopens" /\ trace[i].before.status = "closed"
            => /\ trace[i].after.status = "closed"
               /\ trace[i].after.resolution = trace[i].before.resolution
               /\ trace[i].after.owner = trace[i].before.owner

\* a ticket closed as fixed by an earlier changeset and owned by user1 got a
\* reject, which left it as it was
C29_Witness ==
    \E i \in Ran_cmd("rejects") :
        /\ trace[i].before.status = "closed"
        /\ trace[i].before.resolution = "fixed"
        /\ trace[i].before.owner = user1
        /\ trace[i].after = trace[i].before

-----------------------------------------------------------------------------
(* C30 *)

\* the resolutions the closing commands write
Resolutions == {"fixed", "invalid", "worksforme", "already_implemented"}

\* resolution non-empty exactly when closed, and then one of the four
ResolutionFitsStatus(ticket) ==
    /\ ticket.resolution # "" <=> ticket.status = "closed"
    /\ ticket.resolution # "" => ticket.resolution \in Resolutions

\* C30: the tickets start with an empty resolution and a status other than
\* closed; after every command of every sequence of commands applied to
\* them, and in the store, the resolution is non-empty if and only if the
\* status is closed, and a non-empty resolution is one of fixed, invalid,
\* worksforme, already_implemented.
C30_ResolutionIffClosed ==
    /\ \A t \in ExistingIds : ResolutionFitsStatus(tickets[t])
    /\ \A i \in Ops("cmd") : ResolutionFitsStatus(trace[i].after)

\* a ticket closed as already_implemented was reopened: its resolution
\* became empty again
C30_Witness ==
    \E i \in Ran_cmd("reopens") :
        /\ trace[i].before.status = "closed"
        /\ trace[i].before.resolution = "already_implemented"
        /\ trace[i].after.status = "reopened"
        /\ trace[i].after.resolution = ""
        /\ tickets[trace[i].id] = trace[i].after

-----------------------------------------------------------------------------
(* C23 *)

\* the ticket ids for which the last call reached the notification system
Notified == {trace[i].id : i \in Ops("notify") \cup Ops("notify_failed")}

\* C23: for each ticket the last event looked up, if a command signalled
\* save the ticket is saved with the comment and, with the notification
\* toggle on, the notification system is then called for it; if no command
\* signalled save the ticket is neither saved nor notified.
C23_SavedThenNotified ==
    (Processed /\ NoSaveFailed)
        => \A t \in LookedUp :
              IF t \in Commanded
              THEN /\ t \in Saved
                   /\ notify => t \in Notified
              ELSE t \notin Saved /\ t \notin Notified

-----------------------------------------------------------------------------
(* C25 *)

\* the number of deliveries so far
Deliveries == Len(delivered)

\* C25: the guard remembers the key of the last delivery only: a delivery is
\* skipped as a duplicate exactly when its key is the key of the delivery
\* right before it; after deliveries with keys A, B, A (A # B) the third is
\* no duplicate, the handler runs the update, looks its tickets up again,
\* and A is the key remembered.
C25_GuardRemembersLastKeyOnly ==
    /\ Deliveries >= 1
          => (result.kind = "duplicate"
                <=> (Deliveries >= 2
                       /\ delivered[Deliveries] = delivered[Deliveries - 1]))
    /\ (Deliveries >= 3
          /\ delivered[Deliveries] = delivered[Deliveries - 2]
          /\ delivered[Deliveries] # delivered[Deliveries - 1])
          => /\ Processed
             /\ _last_cset_id = delivered[Deliveries]
             /\ Requested # {} => LookedUp \cap Requested # {}

\* 'closes #1', then 'refs #1', then 'closes #1' again were delivered: the
\* third delivery ran cmd_close on ticket 1 and saved it a third time
C25_Witness ==
    /\ delivered = << CsetId(Changeset(42, msg_closes, author_user1, None)),
                      CsetId(Changeset(42, msg_refs, author_user1, None)),
                      CsetId(Changeset(42, msg_closes, author_user1, None)) >>
    /\ Ran_cmd("close") # {}
    /\ Saved = {1}
    /\ changes[1] = 3

-----------------------------------------------------------------------------
(* C27 *)

\* the three fields as the claim words them for a string holding '@': the
\* name before the nearest '<' preceding the '@', the email from just after
\* that '<' (or from the start) to the next '>' after the '@' (or the end),
\* the domain after the '@' to the end of the email, in lower case
FieldsAround(author, at) ==
    LET lts == {i \in 1..(at - 1) : author[i] = "<"}
        gts == {i \in (at + 1)..Len(author) : author[i] = ">"}
        from == IF lts = {} THEN 1 ELSE SetMax(lts) + 1
        to == IF gts = {} THEN Len(author) ELSE SetMin(gts) - 1
    IN  [author_name |-> IF lts = {} THEN None
                         ELSE strip(SubSeq(author, 1, SetMax(lts) - 1)),
         author_email |-> SubSeq(author, from, to),
         author_email_domain |-> lower(SubSeq(author, at + 1, to))]

\* the positions of '@' in a string
Ats(author) == {i \in 1..Len(author) : author[i] = "@"}

\* C27: _get_changeset_author returns (None, None, None) for a string
\* without '@', and for a string with '@' at any position the name, email
\* and lower-cased domain around its first '@'.
C27_SplitAuthorAtAnyPosition ==
    (call.fn = "_get_changeset_author" /\ value.done)
        => value.out =
              IF Ats(call.arg) = {}
              THEN [author_name |-> None, author_email |-> None,
                    author_email_domain |-> None]
              ELSE FieldsAround(call.arg, SetMin(Ats(call.arg)))

-----------------------------------------------------------------------------
(* C28 *)

\* the address looked for: the extracted email, or the raw author string
\* when there is none, in lower case
LookedFor(author) ==
    LET email == _get_changeset_author(author).author_email
    IN  lower(IF email # None THEN email ELSE author)

\* the users of a directory whose email, and whose username, is the address
ByEmail(users, address) ==
    {i \in 1..Len(users) :
        users[i].email # None /\ lower(users[i].email) = address}
ByUsername(users, address) ==
    {i \in 1..Len(users) :
        users[i].username # None /\ lower(users[i].username) = address}

\* C28: the address is matched, ignoring case, against the email of every
\* known user, and against the usernames only when no email matches; the
\* first match in directory order gives the username returned, and None is
\* returned when nothing matches.
C28_EmailFirstThenUsername ==
    (call.fn = "_get_username_for_changeset_author" /\ value.done)
        => LET users == call.arg.users
               address == LookedFor(call.arg.author)
           IN  value.out =
                  IF ByEmail(users, address) # {}
                  THEN users[SetMin(ByEmail(users, address))].username
                  ELSE IF ByUsername(users, address) # {}
                       THEN users[SetMin(ByUsername(users, address))].username
                       ELSE None

-----------------------------------------------------------------------------
(* Reading a call of _parse_message *)

\* the commands whose option lists an alias that is the keyword but for the
\* case of its letters
ConfiguredFor(options, kw) ==
    {i \in 1..Len(CmdOrder) :
        \E j \in 1..Len(options[CmdOrder[i]]) :
            lower(options[CmdOrder[i]][j]) = lower(kw)}

\* the (keyword, ticket id) pairs of a message, in the order written
RECURSIVE Namings(_)
Namings(message) ==
    IF message = <<>> THEN <<>>
    ELSE [i \in 1..Len(Head(message).ticket) |->
             [kw |-> Head(message).action, id |-> Head(message).ticket[i]]]
         \o Namings(Tail(message))

\* the request map in which each naming of a ticket contributes what
\* Category gives for its keyword, "" contributing nothing
RECURSIVE RequestOf(_, _, _)
RequestOf(namings, Category(_), d) ==
    IF namings = <<>> THEN d
    ELSE LET n == Head(namings)
             c == Category(n.kw)
         IN  RequestOf(Tail(namings), Category,
                       IF c = "" THEN d
                       ELSE [k \in DOMAIN d \cup {n.id} |->
                               IF k = n.id
                               THEN (IF k \in DOMAIN d THEN d[k] ELSE <<>>)
                                        \o <<c>>
                               ELSE d[k]])

-----------------------------------------------------------------------------
(* C21 *)

\* C21: keyword lookup ignores case on both sides: in a message of one
\* command, a keyword that is an alias configured for a category, in
\* whatever case the option and the message write it, resolves to that
\* category for each ticket named.
C21_LookupIgnoresCase ==
    (call.fn = "_parse_message" /\ value.done
        /\ Len(call.arg.message) = 1
        /\ ConfiguredFor(call.arg.options,
                         call.arg.message[1].action) # {})
        => LET m == call.arg.message[1]
               c == CmdOrder[SetMax(ConfiguredFor(call.arg.options,
                                                  m.action))]
           IN  /\ DOMAIN value.out = Range(m.ticket)
               /\ \A k \in Range(m.ticket) : value.out[k] = <<c>>

-----------------------------------------------------------------------------
(* C22 *)

\* the commands whose option lists the keyword, lower-cased, as written
ListedFor(options, kw) ==
    {i \in 1..Len(CmdOrder) : lower(kw) \in Range(options[CmdOrder[i]])}

\* the keyword is an alias as listed, or no alias of any command in any case
Settled(options, kw) ==
    ListedFor(options, kw) # {} \/ ConfiguredFor(options, kw) = {}

\* the command the claim gives a keyword: the one listing it; for a keyword
\* that is no alias, refs when commands_refs is '<ALL>' and none otherwise
Claimed(options, kw) ==
    IF ListedFor(options, kw) # {}
    THEN CmdOrder[SetMax(ListedFor(options, kw))]
    ELSE IF options["refs"] = <<ALL>> THEN "refs" ELSE ""

\* C22: a keyword that is no registered alias is dropped when commands_refs
\* is not '<ALL>', so that a message without any recognized keyword gives
\* the empty request map, and counts as a reference command for every ticket
\* it names when commands_refs is '<ALL>'; the other keywords contribute
\* their commands as before.
C22_UnregisteredKeyword ==
    (call.fn = "_parse_message" /\ value.done
        /\ \A j \in 1..Len(call.arg.message) :
              Settled(call.arg.options, call.arg.message[j].action))
        => LET options == call.arg.options
               Category(kw) == Claimed(options, kw)
               recognized ==
                   {j \in 1..Len(call.arg.message) :
                       ListedFor(options, call.arg.message[j].action) # {}}
           IN  /\ value.out = RequestOf(Namings(call.arg.message), Category,
                                        EmptyDict)
               /\ (recognized = {} /\ options["refs"] # <<ALL>>)
                     => value.out = EmptyDict
               /\ (recognized = {} /\ options["refs"] = <<ALL>>)
                     => /\ DOMAIN value.out =
                              UNION {Range(call.arg.message[j].ticket) :
                                        j \in 1..Len(call.arg.message)}
                        /\ \A k \in DOMAIN value.out :
                              \A n \in 1..Len(value.out[k]) :
                                 value.out[k][n] = "refs"

\* under commands_refs = '<ALL>', 'stuff #1 closes #1, #2' was parsed:
\* ticket 1 got a reference for the unknown keyword, then the close
C22_Witness ==
    /\ call.fn = "_parse_message"
    /\ value.done
    /\ call.arg.options["refs"] = <<ALL>>
    /\ call.arg.message =
          <<Match(kw_stuff, <<1>>), Match(kw_closes, <<1, 2>>)>>
    /\ value.out[1] = <<"refs", "close">>
    /\ value.out[2] = <<"close">>

-----------------------------------------------------------------------------
(* C26 *)

\* a text without the whitespace before its first and after its last
\* character that is no whitespace
Trimmed(text) ==
    LET inked == {i \in 1..Len(text) : text[i] \notin Whitespace}
    IN  IF inked = {} THEN <<>>
        ELSE SubSeq(text, SetMin(inked), SetMax(inked))

\* '/' and the repository name, when the name is not empty
NameSuffix(reponame) ==
    IF reponame = <<>> THEN <<>> ELSE <<"/">> \o reponame

\* the fixed parts of the comment
InChangeset ==
    <<"I","n"," ","[","c","h","a","n","g","e","s","e","t",":","\"">>
Directive ==
    <<"#","!","C","o","m","m","i","t","T","i","c","k","e","t","R","e","f",
      "e","r","e","n","c","e"," ","r","e","p","o","s","i","t","o","r","y",
      "=","\"">>
Revision ==
    <<"\""," ","r","e","v","i","s","i","o","n","=","\"">>

\* C26: the comment is the line 'In [changeset:"<rev>[/<reponame>]"
\* <display_rev>[/<reponame>]]:', the line '{{{', the directive line with
\* the repository name and the revision, the trimmed commit message, and
\* '}}}', the '/<reponame>' suffixes present only for a non-empty name.
C26_CommentIsTemplate ==
    (call.fn = "make_ticket_comment" /\ value.done)
        => LET repos == call.arg.repos
               changeset == call.arg.changeset
               rev == str(changeset.rev)
           IN  value.out =
                  InChangeset \o rev \o NameSuffix(repos.reponame)
                      \o <<"\"", " ">>
                      \o repos.display_rev[changeset.rev]
                      \o NameSuffix(repos.reponame)
                      \o <<"]", ":", "\n", "{", "{", "{", "\n">>
                      \o Directive \o repos.reponame \o Revision \o rev
                      \o <<"\"", "\n">>
                      \o Trimmed(changeset.message)
                      \o <<"\n", "}", "}", "}">>

\* the comment for revision 42 of the repository without a name, whose
\* message has indented lines and whitespace around: no '/' in the first
\* line, the message trimmed and its inner indentation kept
C26_Witness ==
    /\ call.fn = "make_ticket_comment"
    /\ value.done
    /\ call.arg.repos.reponame = <<>>
    /\ call.arg.changeset.rev = 42
    /\ call.arg.changeset.message = text_indented
    /\ value.out =
          InChangeset \o <<"4", "2", "\"", " ", "4", "2", "]", ":", "\n">>
              \o <<"{", "{", "{", "\n">>
              \o Directive \o Revision \o <<"4", "2", "\"", "\n">>
              \o SubSeq(text_indented, 4, Len(text_indented) - 3)
              \o <<"\n", "}", "}", "}">>

-----------------------------------------------------------------------------
(* C31 *)

\* C31: the key of a changeset is remembered before its tickets are
\* processed: when the update of a delivery raised, the key remembered is
\* that delivery's, and the same changeset delivered again right after is
\* skipped as a duplicate, so no ticket is looked up or saved and the
\* tickets the first delivery did not reach stay as they were.
C31_AbortedDeliveryIsNotRetried ==
    [][ result.kind = "raised"
            => /\ _last_cset_id = CsetId(event.changeset)
               /\ event'.changeset = event.changeset
                     => /\ result'.kind = "duplicate"
                        /\ UNCHANGED <<tickets, changes>>
                        /\ trace' = <<>> ]_vars

\* 'closes #1, #2' closed and saved ticket 1 and then raised before ticket 2
\* was reached; delivered again, it was skipped and ticket 2 is still new
C31_Witness ==
    /\ result.kind = "duplicate"
    /\ event.changeset.message = msg_closes_multiple
    /\ tickets[1].status = "closed"
    /\ changes[1] = 1
    /\ tickets[2].status = "new"
    /\ changes[2] = 0

-----------------------------------------------------------------------------
(* C32 *)

\* the commands run on a ticket by the last call, by name and in order
CmdsRunOn(t) ==
    LET entries == SelectSeq(trace, LAMBDA e : e.op = "cmd" /\ e.id = t)
    IN  [i \in 1..Len(entries) |-> entries[i].cmd]

\* the commands a message queues, under the options of the fixture: one for
\* each naming of a ticket by a keyword that is an alias
Queued(message) ==
    LET Category(kw) == Claimed(DefaultCommands, kw)
    IN  RequestOf(Namings(message), Category, EmptyDict)

\* the positions of the trace where save_changes was called for a ticket
SavesOf(t) ==
    {i \in Ops("save_changes") \cup Ops("save_failed") : trace[i].id = t}

\* C32: in one event a ticket is looked up once and saved, with the
\* comment, at most once, however many commands name it; when commands ran
\* on it, every command queued for it ran, a command queued twice ran
\* twice, and all of them ran before the one save.
C32_OneSaveAfterAllCommands ==
    Processed
        => \A t \in LookedUp :
              /\ Cardinality({i \in Ops("Ticket") : trace[i].id = t}) = 1
              /\ Cardinality(SavesOf(t)) <= 1
              /\ t \in Commanded
                    => /\ CmdsRunOn(t) = Queued(event.changeset.message)[t]
                       /\ Cardinality(SavesOf(t)) = 1
                       /\ \A i \in Ops("cmd") : \A j \in SavesOf(t) :
                             trace[i].id = t => i < j

\* 'reopen #1, #1' was delivered for a closed ticket 1: the first reopen
\* reopened it, the second ran on the reopened ticket, then one save
C32_Witness ==
    /\ Processed
    /\ event.changeset.message = <<Match(kw_reopen, <<1, 1>>)>>
    /\ CmdsRunOn(1) = <<"reopens", "reopens">>
    /\ \E i \in Ran_cmd("reopens") :
          /\ trace[i].before.status = "closed"
          /\ trace[i].after.status = "reopened"
          /\ trace[i + 1].op = "cmd"
          /\ trace[i + 1].before.status = "reopened"
    /\ Cardinality(SavesOf(1)) = 1
    /\ tickets[1].status = "reopened"

-----------------------------------------------------------------------------
(* C33 *)

\* C33: no command writes an unresolved author into the owner: the owner a
\* command leaves is the owner it found, the ticket's reporter, or the known
\* user the commit author resolves to, so the same holds after any sequence
\* of commands; when the author resolves to no known user, close, reopen
\* and implement leave the owner as it was.
C33_OwnerIsNeverUnresolvedAuthor ==
    \A i \in Ops("cmd") :
        /\ \/ trace[i].after.owner = trace[i].before.owner
           \/ trace[i].after.owner = trace[i].before.reporter
           \/ (EventUser # None /\ trace[i].after.owner = EventUser)
        /\ (EventUser = None
              /\ trace[i].cmd \in {"close", "reopens", "implements"})
              => trace[i].after.owner = trace[i].before.owner

\* 'closes #1' by 'test_person <me@mydomain.net>', who is no known user,
\* closed ticket 1 and left user3 as its owner
C33_Witness ==
    /\ event.changeset.author = author_mydomain
    /\ \E i \in Ran_cmd("close") :
          /\ trace[i].before.status = "new"
          /\ trace[i].before.owner = user3
          /\ trace[i].after.status = "closed"
          /\ trace[i].after.owner = user3
    /\ tickets[1].owner = user3

=============================================================================
